---- MODULE Spec2Model ----
(***************************************************************************)
(* LeaseSentinel: the daily cron sweep (src/app/api/cron/check/route.ts)   *)
(* together with the webhook dispatcher (src/lib/webhook.ts) and the date  *)
(* helper getTodayISO (lib/date-utils).                                    *)
(*                                                                         *)
(* One GET request is a "sweep".  Its awaits are the suspension points of  *)
(* the handler, so every action below is one synchronous stretch of the    *)
(* handler between two awaits, together with the store operation or the    *)
(* network event that ends the await.                                      *)
(***************************************************************************)
EXTENDS Integers, FiniteSets, Bags, TLC, Sequences

\* ------------------------------------------------------------------------
\* Bounds of the model
\* ------------------------------------------------------------------------
MaxRecords == 2
MaxSweeps == 2
MaxDay == 2

Ids == 1..MaxRecords
Sweeps == 1..MaxSweeps
Days == 1..MaxDay

\* The clock counts half days; a calendar day is two consecutive instants.
TicksPerDay == 2
Instants == 0..(MaxDay * TicksPerDay - 1)

\* ------------------------------------------------------------------------
\* Vocabulary of the schema (models/schema.ts)
\* ------------------------------------------------------------------------
SentinelStatusEnum == {"PENDING", "FIRED"}
LogStatusEnum == {"SUCCESS", "FAILED"}
NotificationMethodEnum == {"slack", "email", "sms", "custom"}

\* process.env.X is either a string or undefined.
UNSET == "<unset>"
\* `${x}` renders undefined as the text "undefined".
TemplateString(v) == IF v = UNSET THEN "undefined" ELSE v

\* The Authorization header of a request: <<>> when absent (headers.get
\* gives null), otherwise <<"Bearer", token>>.
Tokens == {"s3cret", "wrong", "undefined"}
AuthHeaders == {<<>>} \cup {<<"Bearer", t>> : t \in Tokens}

\* What the remote endpoint / network does with one POST.
\*   ok      : a response with response.ok (2xx)
\*   nonok   : a response with !response.ok
\*   neterr  : fetch rejects (DNS, connection refused, ...)
\*   timeout : the 5 s timer fired and aborted the request (AbortError)
ResponseOutcomes == {"ok", "nonok", "neterr"}
FetchOutcomes == ResponseOutcomes \cup {"timeout"}

VARIABLES
    now,            \* the wall clock, in half days since day 1, 00:00 UTC
    MAKE_WEBHOOK_URL,\* TRUE iff process.env.MAKE_WEBHOOK_URL is set
    CRON_SECRET,    \* process.env.CRON_SECRET, or UNSET
    sentinels,      \* collection "sentinels": id -> document
    logs,           \* collection "logs": a bag of documents
    pc,             \* per request: where GET stands
    authorization,  \* per request: req.headers.get("Authorization")
    today,          \* per request: const today = getTodayISO()
    snapshot,       \* per request: ids of snapshot.docs
    response,       \* per request: what GET answered
    unit,           \* per request and record: the async callback of .map
    call            \* the last call of a server action or of a date helper

vars == <<now, MAKE_WEBHOOK_URL, CRON_SECRET, sentinels, logs,
          pc, authorization, today, snapshot, response, unit, call>>

envVars == <<MAKE_WEBHOOK_URL, CRON_SECRET>>

\* ------------------------------------------------------------------------
\* lib/date-utils
\* ------------------------------------------------------------------------
\* new Date().toISOString().split("T")[0]: the UTC calendar day of an instant.
getTodayISO(t) == (t \div TicksPerDay) + 1

\* ------------------------------------------------------------------------
\* lib/webhook.ts
\* ------------------------------------------------------------------------
Return(v) == [threw |-> FALSE, value |-> v]
Throw == [threw |-> TRUE, value |-> FALSE]

\* Variant: the response status is not looked at.
dispatchAlertNoOkCheck(outcome) ==
    IF outcome \in {"ok", "nonok"} THEN Return(TRUE) ELSE Return(FALSE)

\* Variant: the catch block lets the AbortError through.
dispatchAlertRethrowAbort(outcome) ==
    IF outcome \in {"ok", "nonok"}
    THEN IF outcome # "ok" THEN Return(FALSE) ELSE Return(TRUE)
    ELSE IF outcome = "timeout" THEN Throw ELSE Return(FALSE)

\* dispatchAlert, as a function of what happened to the request.
dispatchAlert(outcome) ==
    IF outcome \in {"ok", "nonok"}
    THEN \* try: fetch resolved; clearTimeout; if (!response.ok) return false
         IF outcome # "ok" THEN Return(FALSE) ELSE Return(TRUE)
    ELSE \* catch: clearTimeout; AbortError or any other error: return false
         Return(FALSE)

\* ------------------------------------------------------------------------
\* The per-record callback
\* ------------------------------------------------------------------------
\* pc of a unit:
\*   none      : the record is not in snapshot.docs of this request
\*   fetching  : inside dispatchAlert, awaiting fetch
\*   updating  : awaiting doc.ref.update({status: "FIRED"})
\*   logging   : awaiting collection("logs").add(logData)
\*   fulfilled : the callback returned
\*   rejected  : the callback threw
\* net is what the request met (none while not settled or not made);
\* isSuccess is the callback's local of that name, "true" or "false" ("unset"
\* before line 67 has assigned it);
\* threwAt is the await at which a rejected callback threw.
NoUnit == [pc |-> "none", net |-> "none", isSuccess |-> "unset", threwAt |-> "none"]

Settled(u) == u.pc \in {"fulfilled", "rejected"}

\* Lines 43-65: the destination and the payload sent.
UsesRelay(d) == d.notificationMethod # "custom"

SentPayload(d) ==
    IF d.notificationMethod = "custom"
    THEN {"event", "date", "clause"}
    ELSE {"method", "handle", "event", "date", "clause"}

\* Variant: the log document is built before the branch and says SUCCESS.
LogDataAlwaysSuccess(sw, id, status) ==
    [sentinelId |-> id,
     status |-> "SUCCESS",
     payload |-> {"method", "event", "date"},
     sweep |-> sw]

\* Lines 74-83 and 91-101: the log document.
LogData(sw, id, status) ==
    [sentinelId |-> id,
     status |-> status,
     payload |-> IF status = "SUCCESS"
                 THEN {"method", "event", "date"}
                 ELSE {"method", "event", "date", "error"},
     sweep |-> sw]

\* Variant: the relay URL is used without the check that it is set.
StartUnitNoRelayCheck(d) == [NoUnit EXCEPT !.pc = "fetching"]

\* Line 36-66 for one document: the callback up to its first await.
StartUnit(d) ==
    IF UsesRelay(d) /\ ~MAKE_WEBHOOK_URL
    THEN [NoUnit EXCEPT !.pc = "fulfilled"]
    ELSE [NoUnit EXCEPT !.pc = "fetching"]

\* Variant: the query selects every PENDING record whose date has come.
MatchesOverdue(d, day) == d.triggerDate <= day /\ d.status = "PENDING"

\* Variant: the query without its status filter.
MatchesAnyStatus(d, day) == d.triggerDate = day

\* Lines 31-32: the query's predicate.
Matches(d, day) == d.triggerDate = day /\ d.status = "PENDING"

\* ------------------------------------------------------------------------
\* Initial states
\* ------------------------------------------------------------------------
NoResponse == [status |-> 0, processed |-> -1]

\* Records are created PENDING (createSentinel); record i notifies by the
\* i-th method of the list custom, email, slack, sms.
MethodOf(i) ==
    CASE i % 4 = 1 -> "custom"
      [] i % 4 = 2 -> "email"
      [] i % 4 = 3 -> "slack"
      [] OTHER -> "sms"

\* Record i belongs to the first or the second user (userId is the
\* creator's email, createSentinel).
OwnerOf(i) == IF i % 2 = 1 THEN "ann@example.com" ELSE "bob@example.com"

\* No server action and no helper has been called.
NoCall == [fn |-> "none"]

InitRequests ==
    /\ pc = [sw \in Sweeps |-> "idle"]
    /\ authorization = [sw \in Sweeps |-> <<>>]
    /\ today = [sw \in Sweeps |-> 0]
    /\ snapshot = [sw \in Sweeps |-> {}]
    /\ response = [sw \in Sweeps |-> NoResponse]
    /\ unit = [sw \in Sweeps |-> [id \in Ids |-> NoUnit]]

\* The world at instant t, before any request.
InitAt(t) ==
    /\ now = t
    /\ MAKE_WEBHOOK_URL \in BOOLEAN
    /\ CRON_SECRET = "s3cret"
    /\ \E dates \in [Ids -> Days] :
         sentinels = [id \in Ids |->
                        [userId |-> OwnerOf(id),
                         triggerDate |-> dates[id],
                         status |-> "PENDING",
                         notificationMethod |-> MethodOf(id)]]
    /\ logs = EmptyBag
    /\ call = NoCall
    /\ InitRequests

Init == InitAt(0)

\* ------------------------------------------------------------------------
\* GET
\* ------------------------------------------------------------------------
\* Lines 19-26: the security gate and getTodayISO, up to the await of the
\* query.  Requests are numbered in the order they arrive.
Gate(sw, authHeader) ==
    /\ pc[sw] = "idle"
    /\ \A o \in Sweeps : o < sw => pc[o] # "idle"
    /\ LET expectedAuth == <<"Bearer", TemplateString(CRON_SECRET)>> IN
       IF authHeader # expectedAuth
       THEN /\ pc' = [pc EXCEPT ![sw] = "done"]
            /\ response' = [response EXCEPT ![sw] = [status |-> 401, processed |-> -1]]
            /\ UNCHANGED today
       ELSE /\ pc' = [pc EXCEPT ![sw] = "querying"]
            /\ today' = [today EXCEPT ![sw] = getTodayISO(now)]
            /\ UNCHANGED response
    /\ authorization' = [authorization EXCEPT ![sw] = authHeader]
    /\ UNCHANGED <<now, envVars, call, sentinels, logs, snapshot, unit>>

\* Lines 29-36: the query resolves and .map starts every callback.
QueryResolves(sw) ==
    /\ pc[sw] = "querying"
    /\ LET docs == {id \in DOMAIN sentinels : Matches(sentinels[id], today[sw])} IN
       /\ snapshot' = [snapshot EXCEPT ![sw] = docs]
       /\ unit' = [unit EXCEPT ![sw] =
                     [id \in Ids |-> IF id \in docs
                                     THEN StartUnit(sentinels[id])
                                     ELSE NoUnit]]
    /\ pc' = [pc EXCEPT ![sw] = "running"]
    /\ UNCHANGED <<now, envVars, authorization, call, sentinels, logs, today, response>>

\* Variant: a failed query is caught and treated as an empty result.
QueryFailsSwallowed(sw) ==
    /\ pc[sw] = "querying"
    /\ pc' = [pc EXCEPT ![sw] = "done"]
    /\ response' = [response EXCEPT ![sw] = [status |-> 200, processed |-> 0]]
    /\ UNCHANGED <<now, envVars, authorization, call, sentinels, logs, today, snapshot, unit>>

\* Lines 29-33: the query rejects; GET rejects and the framework answers 500.
QueryFails(sw) ==
    /\ pc[sw] = "querying"
    /\ pc' = [pc EXCEPT ![sw] = "done"]
    /\ response' = [response EXCEPT ![sw] = [status |-> 500, processed |-> -1]]
    /\ UNCHANGED <<now, envVars, authorization, call, sentinels, logs, today, snapshot, unit>>

\* Variant: the records are handled so that one throw stops the rest.
RunnableFailFast(sw, id) ==
    /\ pc[sw] = "running"
    /\ \A j \in Ids : unit[sw][j].pc # "rejected"

\* A callback may run while GET awaits Promise.allSettled.
Runnable(sw, id) == pc[sw] = "running"

\* Variant: the status update is made on both branches.
AfterDispatchAlwaysUpdate(sw, id, outcome) ==
    LET r == dispatchAlert(outcome) IN
    unit' = [unit EXCEPT ![sw][id] =
               [pc |-> "updating", net |-> outcome,
                isSuccess |-> IF r.value THEN "true" ELSE "false",
                threwAt |-> "none"]]

\* Variant: a first dispatch that failed is sent once more.
AfterDispatchRetry(sw, id, outcome) ==
    LET r == dispatchAlert(outcome) IN
    unit' = [unit EXCEPT ![sw][id] =
               IF ~r.value /\ unit[sw][id].net = "none"
               THEN [pc |-> "fetching", net |-> outcome,
                     isSuccess |-> "unset", threwAt |-> "none"]
               ELSE [pc |-> IF r.value THEN "updating" ELSE "logging",
                     net |-> outcome,
                     isSuccess |-> IF r.value THEN "true" ELSE "false", threwAt |-> "none"]]

\* Line 67: dispatchAlert comes back, and the callback takes its branch up
\* to the next await.
AfterDispatch(sw, id, outcome) ==
    LET r == dispatchAlert(outcome) IN
    unit' = [unit EXCEPT ![sw][id] =
               IF r.threw
               THEN [pc |-> "rejected", net |-> outcome,
                     isSuccess |-> "unset", threwAt |-> "dispatch"]
               ELSE [pc |-> IF r.value THEN "updating" ELSE "logging",
                     net |-> outcome,
                     isSuccess |-> IF r.value THEN "true" ELSE "false", threwAt |-> "none"]]

\* webhook.ts 23-30: the endpoint answers, or the transport fails.
FetchSettles(sw, id, outcome) ==
    /\ Runnable(sw, id)
    /\ unit[sw][id].pc = "fetching"
    /\ outcome \in ResponseOutcomes
    /\ AfterDispatch(sw, id, outcome)
    /\ UNCHANGED <<now, envVars, authorization, call, sentinels, logs, pc, today, snapshot, response>>

\* Variant: no timer is armed.
TimerNeverFires(sw, id) ==
    /\ FALSE
    /\ UNCHANGED vars

\* webhook.ts 20: the 5 s timer fires first and aborts the request.
TimerFires(sw, id) ==
    /\ Runnable(sw, id)
    /\ unit[sw][id].pc = "fetching"
    /\ AfterDispatch(sw, id, "timeout")
    /\ UNCHANGED <<now, envVars, authorization, call, sentinels, logs, pc, today, snapshot, response>>

\* Variant: the update is not awaited; the callback goes on to the log
\* while the record is still as it was.
UpdateStatusAfterLog(sw, id) ==
    /\ Runnable(sw, id)
    /\ unit[sw][id].pc = "updating"
    /\ unit' = [unit EXCEPT ![sw][id].pc = "logging"]
    /\ UNCHANGED <<now, envVars, authorization, call, sentinels, logs, pc, today, snapshot, response>>

\* Variant: set(..., {merge: true}) instead of update(): a document that is
\* gone comes back with the one field.
UpdateStatusUpsert(sw, id) ==
    /\ Runnable(sw, id)
    /\ unit[sw][id].pc = "updating"
    /\ sentinels' = IF id \in DOMAIN sentinels
                    THEN [sentinels EXCEPT ![id].status = "FIRED"]
                    ELSE (id :> [status |-> "FIRED"]) @@ sentinels
    /\ unit' = [unit EXCEPT ![sw][id].pc = "logging"]
    /\ UNCHANGED <<now, envVars, authorization, call, logs, pc, today, snapshot, response>>

\* Line 71: the store applies the update (update() of a document that does
\* not exist is rejected: UpdateFails).
UpdateStatus(sw, id) ==
    /\ Runnable(sw, id)
    /\ unit[sw][id].pc = "updating"
    /\ id \in DOMAIN sentinels
    /\ sentinels' = [sentinels EXCEPT ![id].status = "FIRED"]
    /\ unit' = [unit EXCEPT ![sw][id].pc = "logging"]
    /\ UNCHANGED <<now, envVars, authorization, call, logs, pc, today, snapshot, response>>

\* Line 71: the update rejects; the callback throws.
UpdateFails(sw, id) ==
    /\ Runnable(sw, id)
    /\ unit[sw][id].pc = "updating"
    /\ unit' = [unit EXCEPT ![sw][id].pc = "rejected", ![sw][id].threwAt = "update"]
    /\ UNCHANGED <<now, envVars, authorization, call, sentinels, logs, pc, today, snapshot, response>>

\* Variant: the log entry is written under the record's id (set), replacing
\* what was logged for the record before.
LogAddOverwrite(sw, id) ==
    /\ Runnable(sw, id)
    /\ unit[sw][id].pc = "logging"
    /\ logs' = [e \in {x \in DOMAIN logs : x.sentinelId # id} |-> logs[e]]
                (+) SetToBag({LogData(sw, id,
                         IF unit[sw][id].isSuccess = "true" THEN "SUCCESS" ELSE "FAILED")})
    /\ unit' = [unit EXCEPT ![sw][id].pc = "fulfilled"]
    /\ UNCHANGED <<now, envVars, authorization, call, sentinels, pc, today, snapshot, response>>

\* Lines 85 and 103: the store appends the log document.
LogAdd(sw, id) ==
    /\ Runnable(sw, id)
    /\ unit[sw][id].pc = "logging"
    /\ logs' = logs (+) SetToBag({LogData(sw, id,
                         IF unit[sw][id].isSuccess = "true" THEN "SUCCESS" ELSE "FAILED")})
    /\ unit' = [unit EXCEPT ![sw][id].pc = "fulfilled"]
    /\ UNCHANGED <<now, envVars, authorization, call, sentinels, pc, today, snapshot, response>>

\* Variant: a failed log append resets the record for a retry.
LogAddFailsRollback(sw, id) ==
    /\ Runnable(sw, id)
    /\ unit[sw][id].pc = "logging"
    /\ sentinels' = [sentinels EXCEPT ![id].status = "PENDING"]
    /\ unit' = [unit EXCEPT ![sw][id].pc = "rejected", ![sw][id].threwAt = "log"]
    /\ UNCHANGED <<now, envVars, authorization, call, logs, pc, today, snapshot, response>>

\* Lines 85 and 103: the add rejects; the callback throws.
LogAddFails(sw, id) ==
    /\ Runnable(sw, id)
    /\ unit[sw][id].pc = "logging"
    /\ unit' = [unit EXCEPT ![sw][id].pc = "rejected", ![sw][id].threwAt = "log"]
    /\ UNCHANGED <<now, envVars, authorization, call, sentinels, logs, pc, today, snapshot, response>>

\* Variant: Promise.all instead of Promise.allSettled.
RespondFailFast(sw) ==
    /\ pc[sw] = "running"
    /\ \/ /\ \E id \in snapshot[sw] : unit[sw][id].pc = "rejected"
          /\ response' = [response EXCEPT ![sw] = [status |-> 500, processed |-> -1]]
       \/ /\ \A id \in snapshot[sw] : unit[sw][id].pc = "fulfilled"
          /\ response' = [response EXCEPT ![sw] =
                            [status |-> 200, processed |-> Cardinality(snapshot[sw])]]
    /\ pc' = [pc EXCEPT ![sw] = "done"]
    /\ UNCHANGED <<now, envVars, authorization, call, sentinels, logs, today, snapshot, unit>>

\* Variant: Promise.race instead of Promise.allSettled: GET answers as soon
\* as one callback has settled.
RespondOnFirstSettled(sw) ==
    /\ pc[sw] = "running"
    /\ snapshot[sw] # {} => \E id \in snapshot[sw] : Settled(unit[sw][id])
    /\ pc' = [pc EXCEPT ![sw] = "done"]
    /\ response' = [response EXCEPT ![sw] =
                      [status |-> 200, processed |-> Cardinality(snapshot[sw])]]
    /\ UNCHANGED <<now, envVars, authorization, call, sentinels, logs, today, snapshot, unit>>

\* Lines 107-112: every promise has settled; GET answers.
Respond(sw) ==
    /\ pc[sw] = "running"
    /\ \A id \in snapshot[sw] : Settled(unit[sw][id])
    /\ pc' = [pc EXCEPT ![sw] = "done"]
    /\ response' = [response EXCEPT ![sw] =
                      [status |-> 200, processed |-> Cardinality(snapshot[sw])]]
    /\ UNCHANGED <<now, envVars, authorization, call, sentinels, logs, today, snapshot, unit>>

\* Time passes.
Tick ==
    /\ now + 1 \in Instants
    /\ now' = now + 1
    /\ UNCHANGED <<envVars, authorization, call, sentinels, logs, pc, today, snapshot, response, unit>>

Next ==
    \/ \E sw \in Sweeps, h \in AuthHeaders : Gate(sw, h)
    \/ \E sw \in Sweeps : QueryResolves(sw)
    \/ \E sw \in Sweeps : QueryFails(sw)
    \/ \E sw \in Sweeps, id \in Ids, o \in ResponseOutcomes : FetchSettles(sw, id, o)
    \/ \E sw \in Sweeps, id \in Ids : TimerFires(sw, id)
    \/ \E sw \in Sweeps, id \in Ids : UpdateStatus(sw, id)
    \/ \E sw \in Sweeps, id \in Ids : UpdateFails(sw, id)
    \/ \E sw \in Sweeps, id \in Ids : LogAdd(sw, id)
    \/ \E sw \in Sweeps, id \in Ids : LogAddFails(sw, id)
    \/ \E sw \in Sweeps : Respond(sw)
    \/ Tick

Spec == Init /\ [][Next]_vars

TypeOK ==
    /\ now \in Instants
    /\ MAKE_WEBHOOK_URL \in BOOLEAN
    /\ \A id \in Ids : sentinels[id].status \in SentinelStatusEnum
    /\ \A sw \in Sweeps : pc[sw] \in {"idle", "querying", "running", "done"}
    /\ \A sw \in Sweeps : snapshot[sw] \subseteq Ids

\* ------------------------------------------------------------------------
\* Fairness: what the runtime and the store guarantee.  The store answers
\* every call (with a result or an error), a timer that is armed fires unless
\* it is cleared, and a handler whose await is over runs on.  The remote
\* endpoint owes nothing: FetchSettles has no fairness.
\* ------------------------------------------------------------------------
Fairness ==
    /\ \A sw \in Sweeps : WF_vars(QueryResolves(sw) \/ QueryFails(sw))
    /\ \A sw \in Sweeps : WF_vars(Respond(sw))
    /\ \A sw \in Sweeps, id \in Ids :
         /\ WF_vars(TimerFires(sw, id))
         /\ WF_vars(UpdateStatus(sw, id) \/ UpdateFails(sw, id))
         /\ WF_vars(LogAdd(sw, id) \/ LogAddFails(sw, id))

\* The liveness check starts on the morning of the last day.
InitFair == InitAt((MaxDay - 1) * TicksPerDay)

FairSpec == InitFair /\ [][Next]_vars /\ Fairness

\* The deployments the gate can meet: CRON_SECRET configured or not, on the
\* morning of the last day.
InitAuth ==
    /\ now = (MaxDay - 1) * TicksPerDay
    /\ MAKE_WEBHOOK_URL \in BOOLEAN
    /\ CRON_SECRET \in {"s3cret", UNSET}
    /\ \E dates \in [Ids -> Days] :
         sentinels = [id \in Ids |->
                        [userId |-> OwnerOf(id),
                         triggerDate |-> dates[id],
                         status |-> "PENDING",
                         notificationMethod |-> MethodOf(id)]]
    /\ logs = EmptyBag
    /\ call = NoCall
    /\ InitRequests

AuthSpec == InitAuth /\ [][Next]_vars

\* ------------------------------------------------------------------------
\* lib/date-utils: isWithinNoticeWindow
\* ------------------------------------------------------------------------
\* A "YYYY-MM-DD" string is held as its three numbers [y, m, d].  new Date(s)
\* of a date-only string is midnight UTC of that date; a time value is held as
\* [day, ms]: whole days since 1970-01-01 and milliseconds within the day, so
\* that getTime() = day * msPerDay + ms without leaving 32 bits.

\* ECMAScript DaysInYear(y).
DaysInYear(y) ==
    IF y % 4 # 0 THEN 365
    ELSE IF y % 100 # 0 THEN 366
    ELSE IF y % 400 # 0 THEN 365
    ELSE 366

\* ECMAScript DayFromYear(y): the day number of January 1st of year y.
DayFromYear(y) ==
    365 * (y - 1970) + ((y - 1969) \div 4) - ((y - 1901) \div 100) + ((y - 1601) \div 400)

\* Days from January 1st to the first of month m (ECMAScript MonthFromTime,
\* read backwards).
DayWithinYear(y, m) ==
    <<0, 31, 59, 90, 120, 151, 181, 212, 243, 273, 304, 334>>[m]
        + (IF m > 2 /\ DaysInYear(y) = 366 THEN 1 ELSE 0)

\* new Date("YYYY-MM-DD"): the time value of midnight UTC.
NewDate(s) == [day |-> DayFromYear(s.y) + DayWithinYear(s.y, s.m) + (s.d - 1), ms |-> 0]

\* 1000 * 60 * 60 * 24
MsPerDay == 1000 * 60 * 60 * 24

\* Math.ceil(n / d) for integers n and d > 0.
Ceil(n, d) == -((-n) \div d)

\* Math.ceil((a.getTime() - b.getTime()) / MsPerDay): the quotient of
\* (a.day - b.day) * MsPerDay + (a.ms - b.ms), the whole days taken out
\* of the division.
CeilDiffDays(a, b) == (a.day - b.day) + Ceil(a.ms - b.ms, MsPerDay)

\* Variant: the far end of the window is exclusive.
isWithinNoticeWindowExclusive(triggerDate, todayDate, windowDays) ==
    LET diffDays == CeilDiffDays(NewDate(triggerDate), NewDate(todayDate))
    IN  diffDays >= 0 /\ diffDays < windowDays

\* Variant: the distance is taken without its sign.
isWithinNoticeWindowAbs(triggerDate, todayDate, windowDays) ==
    LET diffDays == CeilDiffDays(NewDate(triggerDate), NewDate(todayDate))
        abs == IF diffDays < 0 THEN -diffDays ELSE diffDays
    IN  abs <= windowDays

\* Lines 107-119.
isWithinNoticeWindow(triggerDate, todayDate, windowDays) ==
    LET trigger == NewDate(triggerDate)
        today_ == NewDate(todayDate)
        diffDays == CeilDiffDays(trigger, today_)
    IN  diffDays >= 0 /\ diffDays <= windowDays

\* The dates the helper is called with: the ends and the starts of the months
\* around a leap day, a year's end and a century year without a leap day.
Years == {2024, 2025, 2100}
DateInputs ==
    {s \in [y : Years, m : {1, 2, 3, 12}, d : {1, 28, 29, 30, 31}] :
        s.d <= (DayWithinYear(s.y + (s.m \div 12), (s.m % 12) + 1)
                  + (IF s.m = 12 THEN DaysInYear(s.y) ELSE 0))
               - DayWithinYear(s.y, s.m)}
WindowInputs == {-1, 0, 1, 2, 30, 31, 365, 366}

\* No request has been made and nothing has been logged.
NoSweep ==
    /\ now = 0
    /\ MAKE_WEBHOOK_URL = FALSE
    /\ CRON_SECRET = UNSET
    /\ logs = EmptyBag
    /\ InitRequests

sweepVars == <<now, envVars, sentinels, logs, pc, authorization, today, snapshot, response, unit>>

InitDate ==
    /\ NoSweep
    /\ sentinels = << >>
    /\ \E t \in DateInputs, r \in DateInputs, w \in WindowInputs :
          call = [fn |-> "isWithinNoticeWindow",
                  triggerDate |-> t, todayDate |-> r, windowDays |-> w,
                  returned |-> FALSE, value |-> FALSE]

CallIsWithinNoticeWindow ==
    /\ call.fn = "isWithinNoticeWindow"
    /\ ~call.returned
    /\ call' = [call EXCEPT
                  !.returned = TRUE,
                  !.value = isWithinNoticeWindow(call.triggerDate, call.todayDate,
                                                 call.windowDays)]
    /\ UNCHANGED sweepVars

DateNext == CallIsWithinNoticeWindow

DateSpec == InitDate /\ [][DateNext]_vars

\* ------------------------------------------------------------------------
\* actions/sentinel.actions.ts: createSentinel
\* ------------------------------------------------------------------------
\* What auth() resolves to: null, or a session whose user may lack an email.
Sessions ==
    {[kind |-> "null"],
     [kind |-> "session", user |-> [name |-> "Test User"]],
     [kind |-> "session", user |-> [name |-> "Test User", email |-> ""]],
     [kind |-> "session", user |-> [name |-> "Ann", email |-> "ann@example.com"]],
     [kind |-> "session", user |-> [name |-> "Bob", email |-> "bob@example.com"]]}

\* session?.user?.email, as a truth value.
HasEmail(session) ==
    /\ session.kind = "session"
    /\ "email" \in DOMAIN session.user
    /\ session.user.email # ""

\* A FormData holds a subset of the three fields; get() of a missing field is
\* null, which no z.string() and no z.enum() accepts.
ClauseInputs == {"Rent due.", "Rent due 1"}
MethodInputs == {"fax", "teams", "email", "custom"}
TargetInputs == {"", "x"}
FormDatas ==
    {f \in UNION {[D -> ClauseInputs \cup MethodInputs \cup TargetInputs] :
                    D \in SUBSET {"clause", "notificationMethod", "notificationTarget"}} :
        /\ "clause" \in DOMAIN f => f["clause"] \in ClauseInputs
        /\ "notificationMethod" \in DOMAIN f => f["notificationMethod"] \in MethodInputs
        /\ "notificationTarget" \in DOMAIN f => f["notificationTarget"] \in TargetInputs}

\* FormInputSchema.safeParse (lines 47-54).
FormInputSchema(rawInput) ==
    [success |->
        /\ "clause" \in DOMAIN rawInput
        /\ Len(rawInput["clause"]) >= 10
        /\ "notificationMethod" \in DOMAIN rawInput
        /\ rawInput["notificationMethod"] \in {"slack", "teams", "email", "sms", "custom"}
        /\ "notificationTarget" \in DOMAIN rawInput
        /\ Len(rawInput["notificationTarget"]) >= 1,
     data |-> rawInput]

\* What extractLeaseData resolves to: null, or two strings (it never throws).
Extractions ==
    {[kind |-> "null"]}
        \cup {[kind |-> "result", eventName |-> e, triggerDate |-> d] :
                e \in {"Hi", "End"}, d \in {"2025-12-31", "Dec 31, 2025", "2025-13-45"}}

Digits == {"0", "1", "2", "3", "4", "5", "6", "7", "8", "9"}

\* /^\d{4}-\d{2}-\d{2}$/
DateRegex(s) ==
    /\ Len(s) = 10
    /\ \A i \in {1, 2, 3, 4, 6, 7, 9, 10} : SubSeq(s, i, i) \in Digits
    /\ SubSeq(s, 5, 5) = "-"
    /\ SubSeq(s, 8, 8) = "-"

\* Variant: the merged record is stored as built, without the schema.
SentinelSchemaUnchecked(d) == [success |-> TRUE, data |-> d]

\* SentinelSchema.safeParse (models/schema.ts) of a record that has every
\* field but id and webhookUrl.
SentinelSchema(d) ==
    [success |->
        /\ Len(d.eventName) >= 3
        /\ DateRegex(d.triggerDate)
        /\ d.notificationMethod \in NotificationMethodEnum
        /\ d.status \in SentinelStatusEnum,
     data |-> d]

\* Variant: the owner is taken from the session user's name.
SentinelDataByName(session, input, extracted, createdAt) ==
    [userId |-> session.user.name,
     eventName |-> extracted.eventName,
     triggerDate |-> extracted.triggerDate,
     originalClause |-> input["clause"],
     notificationMethod |-> input["notificationMethod"],
     notificationTarget |-> input["notificationTarget"],
     status |-> "PENDING",
     createdAt |-> createdAt]

\* Lines 174-183: the merged record.
SentinelData(session, input, extracted, createdAt) ==
    [userId |-> session.user.email,
     eventName |-> extracted.eventName,
     triggerDate |-> extracted.triggerDate,
     originalClause |-> input["clause"],
     notificationMethod |-> input["notificationMethod"],
     notificationTarget |-> input["notificationTarget"],
     status |-> "PENDING",
     createdAt |-> createdAt]

\* The ActionResult of a failure and of a success.
Failure(message) == Return([success |-> FALSE, message |-> message])
Success(message) == Return([success |-> TRUE, message |-> message])

\* The collection before the call: empty, or one record of an earlier call.
StoresBefore ==
    {<< >>,
     <<SentinelData([kind |-> "session",
                     user |-> [name |-> "Ann", email |-> "ann@example.com"]],
                    [clause |-> "Rent due 1", notificationMethod |-> "email",
                     notificationTarget |-> "x"],
                    [kind |-> "result", eventName |-> "End", triggerDate |-> "2025-12-31"],
                    0)>>}

\* createSentinel has been called with formData; it stands at await auth().
InitCreate ==
    /\ NoSweep
    /\ sentinels \in StoresBefore
    /\ \E f \in FormDatas :
          call = [fn |-> "createSentinel", pc |-> "auth", formData |-> f,
                  before |-> sentinels,
                  session |-> [kind |-> "pending"],
                  extracted |-> [kind |-> "pending"],
                  added |-> FALSE,
                  result |-> Failure("")]

Returns(r) == call' = [call EXCEPT !.pc = "returned", !.result = r]

\* Lines 125-160: auth() resolves; the session and the form are checked, up
\* to the await of extractLeaseData.
AuthResolves(session) ==
    /\ call.fn = "createSentinel" /\ call.pc = "auth"
    /\ LET c == [call EXCEPT !.session = session]
           validatedInput == FormInputSchema(call.formData)
       IN  IF ~HasEmail(session)
           THEN call' = [c EXCEPT !.pc = "returned",
                                  !.result = Failure("Unauthorized. Please sign in.")]
           ELSE IF ~validatedInput.success
           THEN call' = [c EXCEPT !.pc = "returned",
                                  !.result = Failure("Validation failed")]
           ELSE call' = [c EXCEPT !.pc = "extracting"]
    /\ UNCHANGED <<sweepVars>>

\* auth() rejects: the catch of lines 206-216.
AuthRejects ==
    /\ call.fn = "createSentinel" /\ call.pc = "auth"
    /\ call' = [call EXCEPT !.session = [kind |-> "throws"],
                            !.pc = "returned",
                            !.result = Failure("Failed to create sentinel")]
    /\ UNCHANGED <<sweepVars>>

\* Lines 163-193: extractLeaseData resolves; the merged record is built and
\* parsed, up to the await of add.
ExtractResolves(extracted) ==
    /\ call.fn = "createSentinel" /\ call.pc = "extracting"
    /\ LET c == [call EXCEPT !.extracted = extracted] IN
       IF extracted.kind = "null"
       THEN call' = [c EXCEPT !.pc = "returned",
                              !.result = Failure("AI extraction failed. Please try rephrasing the clause.")]
       ELSE LET sentinelData == SentinelData(call.session, FormInputSchema(call.formData).data,
                                             extracted, now)
                validatedSentinel == SentinelSchema(sentinelData)
            IN  IF ~validatedSentinel.success
                THEN call' = [c EXCEPT !.pc = "returned",
                                       !.result = Failure("Invalid sentinel data generated")]
                ELSE call' = [c EXCEPT !.pc = "adding"]
    /\ UNCHANGED <<sweepVars>>

\* Lines 196-205: add resolves, then revalidatePath("/") returns or throws
\* (into the catch).
AddResolves(revalidated) ==
    /\ call.fn = "createSentinel" /\ call.pc = "adding"
    /\ sentinels' = Append(sentinels,
                      SentinelSchema(SentinelData(call.session,
                                                  FormInputSchema(call.formData).data,
                                                  call.extracted, now)).data)
    /\ call' = [call EXCEPT !.added = TRUE,
                            !.pc = "returned",
                            !.result = IF revalidated
                                       THEN Success("Sentinel created successfully")
                                       ELSE Failure("Failed to create sentinel")]
    /\ UNCHANGED <<now, envVars, logs, pc, authorization, today, snapshot, response, unit>>

\* Line 196: add rejects; the catch of lines 206-216.
AddRejects ==
    /\ call.fn = "createSentinel" /\ call.pc = "adding"
    /\ Returns(Failure("Failed to create sentinel"))
    /\ UNCHANGED <<sweepVars>>

CreateNext ==
    \/ \E session \in Sessions : AuthResolves(session)
    \/ AuthRejects
    \/ \E extracted \in Extractions : ExtractResolves(extracted)
    \/ \E revalidated \in BOOLEAN : AddResolves(revalidated)
    \/ AddRejects

CreateSpec == InitCreate /\ [][CreateNext]_vars

\* ------------------------------------------------------------------------
\* actions/sentinel.actions.ts: deleteSentinel
\* ------------------------------------------------------------------------
\* The collection without document id (delete() of a document that does not
\* exist changes nothing and resolves).
Remove(id) == [j \in DOMAIN sentinels \ {id} |-> sentinels[j]]

\* .doc(sentinelId).get(): the snapshot of the document, or of its absence.
GetDoc(id) ==
    IF id \in DOMAIN sentinels
    THEN [kind |-> "doc", exists |-> TRUE, userId |-> sentinels[id].userId]
    ELSE [kind |-> "doc", exists |-> FALSE, userId |-> UNSET]

\* Variant: the ownership check is left out.
MayDeleteAnyExisting(doc, session) == doc.exists

\* Line 294, negated: the document exists and is the caller's.
MayDelete(doc, session) == doc.exists /\ doc.userId = session.user.email

\* The ids deleteSentinel is called with: those of the records, and one that
\* no record has.
DeleteIds == Ids \cup {MaxRecords + 1}

\* Lines 279-284: deleteSentinel is called; it stands at await auth().
DeleteEnter(sentinelId) ==
    /\ \/ call.fn = "none"
       \/ call.fn = "deleteSentinel" /\ call.pc = "returned"
    /\ call' = [fn |-> "deleteSentinel", pc |-> "auth", sentinelId |-> sentinelId,
                session |-> [kind |-> "pending"],
                doc |-> [kind |-> "pending"],
                result |-> Failure("")]
    /\ UNCHANGED <<sweepVars>>

\* Lines 284-293: auth() resolves; the session is checked, up to the await of
\* get().
DeleteAuthResolves(session) ==
    /\ call.fn = "deleteSentinel" /\ call.pc = "auth"
    /\ LET c == [call EXCEPT !.session = session] IN
       IF ~HasEmail(session)
       THEN call' = [c EXCEPT !.pc = "returned",
                              !.result = Failure("Unauthorized. Please sign in.")]
       ELSE call' = [c EXCEPT !.pc = "getting"]
    /\ UNCHANGED <<sweepVars>>

\* auth() rejects: the catch of lines 309-319.
DeleteAuthRejects ==
    /\ call.fn = "deleteSentinel" /\ call.pc = "auth"
    /\ call' = [call EXCEPT !.session = [kind |-> "throws"],
                            !.pc = "returned",
                            !.result = Failure("Failed to delete sentinel")]
    /\ UNCHANGED <<sweepVars>>

\* Lines 293-301: get() resolves; existence and ownership are checked, up to
\* the await of delete().
DeleteGetResolves ==
    /\ call.fn = "deleteSentinel" /\ call.pc = "getting"
    /\ LET doc == GetDoc(call.sentinelId)
           c == [call EXCEPT !.doc = doc]
       IN  IF ~MayDelete(doc, call.session)
           THEN call' = [c EXCEPT !.pc = "returned",
                                  !.result = Failure("Sentinel not found or access denied.")]
           ELSE call' = [c EXCEPT !.pc = "deleting"]
    /\ UNCHANGED <<sweepVars>>

\* Line 293: get() rejects; the catch of lines 309-319.
DeleteGetRejects ==
    /\ call.fn = "deleteSentinel" /\ call.pc = "getting"
    /\ Returns(Failure("Failed to delete sentinel"))
    /\ UNCHANGED <<sweepVars>>

\* Lines 301-308: delete() resolves, then revalidatePath("/") returns or
\* throws (into the catch).
DeleteResolves(revalidated) ==
    /\ call.fn = "deleteSentinel" /\ call.pc = "deleting"
    /\ sentinels' = Remove(call.sentinelId)
    /\ Returns(IF revalidated
               THEN Success("Sentinel deleted successfully")
               ELSE Failure("Failed to delete sentinel"))
    /\ UNCHANGED <<now, envVars, logs, pc, authorization, today, snapshot, response, unit>>

\* Line 301: delete() rejects; the catch of lines 309-319.
DeleteRejects ==
    /\ call.fn = "deleteSentinel" /\ call.pc = "deleting"
    /\ Returns(Failure("Failed to delete sentinel"))
    /\ UNCHANGED <<sweepVars>>

\* Line 301 of another call by the record's owner (a second tab, a double
\* click): the record goes while this call is under way.
RecordVanishes(id) ==
    /\ id \in DOMAIN sentinels
    /\ sentinels' = Remove(id)
    /\ UNCHANGED <<now, envVars, logs, pc, authorization, today, snapshot, response, unit, call>>

\* The records of the sweep's store, all due on the last day, on its morning.
InitStore ==
    /\ now = (MaxDay - 1) * TicksPerDay
    /\ MAKE_WEBHOOK_URL = TRUE
    /\ CRON_SECRET = "s3cret"
    /\ sentinels = [id \in Ids |->
                      [userId |-> OwnerOf(id),
                       triggerDate |-> MaxDay,
                       status |-> "PENDING",
                       notificationMethod |-> MethodOf(id)]]
    /\ logs = EmptyBag
    /\ call = NoCall
    /\ InitRequests

DeleteNext ==
    \/ \E sentinelId \in DeleteIds : DeleteEnter(sentinelId)
    \/ \E session \in Sessions : DeleteAuthResolves(session)
    \/ DeleteAuthRejects
    \/ DeleteGetResolves
    \/ DeleteGetRejects
    \/ \E revalidated \in BOOLEAN : DeleteResolves(revalidated)
    \/ DeleteRejects
    \/ \E id \in Ids : RecordVanishes(id)

DeleteSpec == InitStore /\ [][DeleteNext]_vars

\* ------------------------------------------------------------------------
\* GET and deleteSentinel side by side
\* ------------------------------------------------------------------------
\* The owner of a record deletes it while requests to the cron endpoint are
\* under way: authorized requests of one day and one call of deleteSentinel
\* by the record's owner.
SweepDeleteNext ==
    \/ \E sw \in Sweeps : Gate(sw, <<"Bearer", CRON_SECRET>>)
    \/ \E sw \in Sweeps : QueryResolves(sw)
    \/ \E sw \in Sweeps, id \in Ids, o \in ResponseOutcomes : FetchSettles(sw, id, o)
    \/ \E sw \in Sweeps, id \in Ids : TimerFires(sw, id)
    \/ \E sw \in Sweeps, id \in Ids : UpdateStatus(sw, id)
    \/ \E sw \in Sweeps, id \in Ids : UpdateFails(sw, id)
    \/ \E sw \in Sweeps, id \in Ids : LogAdd(sw, id)
    \/ \E sw \in Sweeps, id \in Ids : LogAddFails(sw, id)
    \/ \E sw \in Sweeps : Respond(sw)
    \/ \E sentinelId \in Ids : call.fn = "none" /\ DeleteEnter(sentinelId)
    \/ /\ call.fn = "deleteSentinel"
       /\ \E session \in {s \in Sessions : /\ HasEmail(s)
                                          /\ s.user.email = OwnerOf(call.sentinelId)} :
             DeleteAuthResolves(session)
    \/ DeleteGetResolves
    \/ DeleteResolves(TRUE)

SweepDeleteSpec == InitStore /\ [][SweepDeleteNext]_vars

\* ------------------------------------------------------------------------
\* Observations used by the properties
\* ------------------------------------------------------------------------
\* How many log documents request sw wrote for record id with status st.
Entries(sw, id, st) ==
    BagCardinality([e \in {x \in DOMAIN logs : /\ x.sweep = sw
                                               /\ x.sentinelId = id
                                               /\ x.status = st} |-> logs[e]])

NumLogs(sw, id) == Entries(sw, id, "SUCCESS") + Entries(sw, id, "FAILED")

\* The records request sw matched, read off the callbacks that exist.
Matched(sw) == {id \in Ids : unit[sw][id].pc # "none"}

\* A dispatch was made for the record in request sw and has come back.
Attempted(sw, id) == unit[sw][id].net # "none"

\* No other request matched a record that sw matched.
Solo(sw) == \A o \in Sweeps \ {sw} : Matched(o) \cap Matched(sw) = {}

Answered(sw) == pc[sw] = "done" /\ response[sw].status = 200

\* ------------------------------------------------------------------------
\* Properties
\* ------------------------------------------------------------------------

\* C1: a sweep that ran alone over N matched records, made a dispatch for
\* each of them (true for the subset S, false for the rest) and had no store
\* write fail, leaves exactly S FIRED, one log entry per record (SUCCESS for
\* S, FAILED for the rest) and answers processed = N.
C1_SweepOutcome ==
    \A sw \in Sweeps :
        ( /\ Answered(sw)
          /\ Solo(sw)
          /\ \A id \in Matched(sw) :
                unit[sw][id].pc = "fulfilled" /\ unit[sw][id].isSuccess \in {"true", "false"} )
        => LET N == Matched(sw)
               S == {id \in N : unit[sw][id].isSuccess = "true"}
           IN  /\ \A id \in N : (sentinels[id].status = "FIRED") <=> (id \in S)
               /\ \A id \in S : Entries(sw, id, "SUCCESS") = 1
                               /\ Entries(sw, id, "FAILED") = 0
               /\ \A id \in N \ S : Entries(sw, id, "FAILED") = 1
                                   /\ Entries(sw, id, "SUCCESS") = 0
               /\ response[sw].processed = Cardinality(N)

C1_Witness ==
    \E sw \in Sweeps, a, b \in Ids :
        /\ Answered(sw) /\ Solo(sw)
        /\ \A id \in Matched(sw) :
              unit[sw][id].pc = "fulfilled" /\ unit[sw][id].isSuccess \in {"true", "false"}
        /\ unit[sw][a].isSuccess = "true"
        /\ unit[sw][b].isSuccess = "false"
        /\ response[sw].processed = 2

\* C2: a callback that threw does not stop the other callbacks of the same
\* sweep: while one unit is rejected, the sweep is still collecting, and every
\* other unit that has not finished can take its next step (dispatch result,
\* status update, log append).
C2_Isolation ==
    \A sw \in Sweeps : \A i, j \in Ids :
        ( /\ i # j
          /\ unit[sw][i].pc = "rejected"
          /\ unit[sw][j].pc \in {"fetching", "updating", "logging"} )
        => /\ pc[sw] = "running"
           /\ unit[sw][j].pc = "fetching" =>
                 /\ ENABLED TimerFires(sw, j)
                 /\ \A o \in ResponseOutcomes : ENABLED FetchSettles(sw, j, o)
           /\ unit[sw][j].pc = "updating" => ENABLED UpdateStatus(sw, j)
           /\ unit[sw][j].pc = "logging" => ENABLED LogAdd(sw, j)

C2_Witness ==
    \E sw \in Sweeps, i, j \in Ids :
        /\ unit[sw][i].pc = "rejected"
        /\ unit[sw][j].pc = "fulfilled"
        /\ unit[sw][j].isSuccess = "true"
        /\ sentinels[j].status = "FIRED"
        /\ Entries(sw, j, "SUCCESS") = 1

\* C3: whenever a record's status changes, it changes from PENDING to FIRED
\* and a callback for that record stands at the status update with a dispatch
\* that returned true; a FIRED record never becomes PENDING again.
C3_OnlyPendingToFired ==
    [][ \A id \in Ids :
          sentinels'[id].status # sentinels[id].status =>
              /\ sentinels[id].status = "PENDING"
              /\ sentinels'[id].status = "FIRED"
              /\ \E sw \in Sweeps : /\ unit[sw][id].pc = "updating"
                                    /\ unit[sw][id].net = "ok"
                                    /\ unit[sw][id].isSuccess = "true" ]_vars

\* A FIRED record that a later sweep has met (and not matched).
C3_Witness ==
    \E id \in Ids, a, b \in Sweeps :
        /\ a < b
        /\ sentinels[id].status = "FIRED"
        /\ unit[a][id].pc = "fulfilled" /\ unit[a][id].isSuccess = "true"
        /\ today[b] = sentinels[id].triggerDate
        /\ Answered(b)

\* C4: every callback that made a dispatch and did not fail at the log append
\* itself has written exactly one log entry when it ends, whatever the
\* dispatch returned and whatever the status update did.
C4_OneLogPerAttempt ==
    \A sw \in Sweeps, id \in Ids :
        ( /\ Settled(unit[sw][id])
          /\ Attempted(sw, id)
          /\ unit[sw][id].threwAt # "log" )
        => NumLogs(sw, id) = 1

\* C5: a request whose query failed is answered with an error (500, no
\* processed count); it has no callback, and the step that fails it changes
\* no record and no log.
C5_QueryFailureIsFatal ==
    /\ [](\A sw \in Sweeps :
            response[sw].status = 500 =>
                /\ response[sw].processed = -1
                /\ Matched(sw) = {}
                /\ \A id \in Ids : NumLogs(sw, id) = 0)
    /\ [][ \A sw \in Sweeps :
             (pc[sw] = "querying" /\ pc'[sw] = "done") =>
                 /\ response'[sw].status = 500
                 /\ response'[sw].processed = -1
                 /\ sentinels' = sentinels
                 /\ logs' = logs
                 /\ unit' = unit ]_vars

\* The query failed although a record was due and PENDING.
C5_Witness ==
    \E sw \in Sweeps, id \in Ids :
        /\ response[sw].status = 500
        /\ sentinels[id].triggerDate = today[sw]
        /\ sentinels[id].status = "PENDING"

\* C6: a sweep with a callback that threw (status update or log append) is
\* never answered with an error: once all callbacks have settled it can
\* answer, and its answer is 200 with processed = the number of matched
\* records, the rejected one included.
C6_LocalFailuresNotSurfaced ==
    \A sw \in Sweeps :
        (\E id \in Ids : unit[sw][id].pc = "rejected") =>
            /\ response[sw].status \in {0, 200}
            /\ pc[sw] = "done" =>
                  /\ response[sw].status = 200
                  /\ response[sw].processed = Cardinality(Matched(sw))
            /\ (pc[sw] = "running" /\ \A id \in Matched(sw) : Settled(unit[sw][id]))
                  => ENABLED Respond(sw)

C6_Witness ==
    \E sw \in Sweeps, a, b \in Ids :
        /\ Answered(sw)
        /\ unit[sw][a].pc = "rejected" /\ unit[sw][a].threwAt = "update"
        /\ unit[sw][b].pc = "rejected" /\ unit[sw][b].threwAt = "log"
        /\ response[sw].processed = 2

\* C7: today is the calendar day of the instant of the request; a callback
\* exists only for a record that had triggerDate = today and status PENDING
\* when the query ran; and a record's document or log changes only if some
\* request has a callback for it.
C7_OnlyDuePendingTouched ==
    /\ [](\A sw \in Sweeps, id \in Ids :
            (unit[sw][id].pc # "none" \/ NumLogs(sw, id) > 0) =>
                sentinels[id].triggerDate = today[sw])
    /\ [][ /\ \A sw \in Sweeps :
                (pc[sw] = "idle" /\ pc'[sw] = "querying") =>
                    /\ (today'[sw] - 1) * TicksPerDay <= now
                    /\ now < today'[sw] * TicksPerDay
           /\ \A sw \in Sweeps, id \in Ids :
                (unit[sw][id].pc = "none" /\ unit'[sw][id].pc # "none") =>
                    /\ pc[sw] = "querying"
                    /\ sentinels[id].triggerDate = today[sw]
                    /\ sentinels[id].status = "PENDING"
           /\ \A id \in Ids :
                ( \/ sentinels'[id] # sentinels[id]
                  \/ \E sw \in Sweeps : NumLogs(sw, id)' # NumLogs(sw, id) )
                => \E sw \in Sweeps : unit[sw][id].pc \in {"updating", "logging"}
         ]_vars

\* A sweep has finished its work on one record and has left alone a record
\* that is due today but was FIRED by an earlier sweep.
C7_Witness ==
    \E sw \in Sweeps, a, b \in Ids :
        /\ Answered(sw)
        /\ unit[sw][a].pc = "fulfilled" /\ Attempted(sw, a)
        /\ unit[sw][b].pc = "none"
        /\ sentinels[b].status = "FIRED"
        /\ sentinels[b].triggerDate = today[sw]
        /\ \E o \in Sweeps : o < sw /\ Answered(o) /\ unit[o][b].isSuccess = "true"

\* C8: for every dispatch that has come back, dispatchAlert returned a
\* boolean (it did not throw), and it returned true exactly when the endpoint
\* answered with an ok response.
C8_DispatchBoolean ==
    \A sw \in Sweeps, id \in Ids :
        Attempted(sw, id) =>
            /\ unit[sw][id].threwAt # "dispatch"
            /\ unit[sw][id].isSuccess \in {"true", "false"}
            /\ (unit[sw][id].isSuccess = "true") <=> (unit[sw][id].net = "ok")

C8_Witness ==
    \E sw \in Sweeps, a, b \in Ids :
        /\ unit[sw][a].net = "ok" /\ unit[sw][a].isSuccess = "true"
        /\ unit[sw][b].net \in {"nonok", "neterr"} /\ unit[sw][b].isSuccess = "false"

\* C9: a dispatch ended by the timer leaves no request in flight, returns
\* false without throwing, and its callback goes on in the failure branch: it
\* never stands at the status update, it can append its log entry, and when
\* it has ended normally it has written one FAILED entry; if no other request
\* matched the record, the record is still PENDING.
C9_TimeoutTakesFailureBranch ==
    \A sw \in Sweeps, id \in Ids :
        unit[sw][id].net = "timeout" =>
            /\ unit[sw][id].isSuccess = "false"
            /\ unit[sw][id].pc \in {"logging", "fulfilled", "rejected"}
            /\ unit[sw][id].threwAt \in {"none", "log"}
            /\ unit[sw][id].pc = "logging" => ENABLED LogAdd(sw, id)
            /\ unit[sw][id].pc = "fulfilled" =>
                  /\ Entries(sw, id, "FAILED") = 1
                  /\ Entries(sw, id, "SUCCESS") = 0
            /\ (\A o \in Sweeps \ {sw} : unit[o][id].pc = "none") =>
                  sentinels[id].status = "PENDING"

C9_Witness ==
    \E sw \in Sweeps, id \in Ids :
        /\ unit[sw][id].net = "timeout"
        /\ unit[sw][id].pc = "fulfilled"
        /\ Entries(sw, id, "FAILED") = 1
        /\ sentinels[id].status = "PENDING"

\* C10: every request that has passed the gate is eventually answered (a
\* processed count or an error), and a processed count is answered only when
\* every callback has settled.
C10_SweepReturns ==
    /\ \A sw \in Sweeps : (pc[sw] = "querying") ~> (pc[sw] = "done")
    /\ [](\A sw \in Sweeps :
            Answered(sw) => \A id \in Matched(sw) : Settled(unit[sw][id]))

\* A sweep answered although one dispatch hung and another was refused.
C10_Witness ==
    \E sw \in Sweeps, a, b \in Ids :
        /\ Answered(sw)
        /\ unit[sw][a].net = "timeout"
        /\ unit[sw][b].net \in {"nonok", "neterr"}
\* C11: when a request's query runs while every record due on the request's
\* today is already FIRED, it matches no record; and a request that matched
\* no record answers processed = 0, has made no dispatch and has written no
\* log entry, and the steps it takes change no record.
C11_SecondSweepIdle ==
    /\ [][ \A sw \in Sweeps :
             ( /\ pc[sw] = "querying" /\ pc'[sw] = "running"
               /\ \A id \in Ids : sentinels[id].triggerDate = today[sw] =>
                                     sentinels[id].status = "FIRED" )
             => /\ snapshot'[sw] = {}
                /\ \A id \in Ids : unit'[sw][id].pc = "none" ]_vars
    /\ [](\A sw \in Sweeps :
            (pc[sw] \in {"running", "done"} /\ response[sw].status \in {0, 200}
             /\ snapshot[sw] = {}) =>
                /\ \A id \in Ids : ~Attempted(sw, id) /\ NumLogs(sw, id) = 0
                /\ Answered(sw) => response[sw].processed = 0)
    /\ [][ \A sw \in Sweeps :
             (snapshot[sw] = {} /\ pc[sw] = "running" /\ pc'[sw] = "done")
             => sentinels' = sentinels /\ logs' = logs ]_vars

\* A second sweep on the day of a first one that fired a record: it matched
\* nothing and answered 0.
C11_Witness ==
    \E a, b \in Sweeps, id \in Ids :
        /\ a < b
        /\ Answered(a) /\ Answered(b)
        /\ today[a] = today[b]
        /\ sentinels[id].triggerDate = today[a]
        /\ unit[a][id].pc = "fulfilled" /\ unit[a][id].isSuccess = "true"
        /\ \A j \in Ids : sentinels[j].triggerDate = today[b] =>
                             sentinels[j].status = "FIRED"
        /\ Matched(b) = {}
        /\ response[b].processed = 0
\* Some dispatch for the record has returned false.
FailedBefore(id) == \E o \in Sweeps : unit[o][id].isSuccess = "false"

\* The step in which the query of request sw resolves.
QueryStep(sw) == pc[sw] = "querying" /\ pc'[sw] = "running"

\* The date is later than the record's triggerDate.
Overdue(id) == getTodayISO(now) > sentinels[id].triggerDate

\* Overdue, and no request that computed today = triggerDate is in flight.
Stale(id) ==
    /\ Overdue(id)
    /\ \A sw \in Sweeps :
          pc[sw] \in {"querying", "running"} => today[sw] # sentinels[id].triggerDate

C12_RetryWitness ==
    \E id \in Ids, a, b \in Sweeps :
        /\ a < b
        /\ unit[a][id].pc = "fulfilled" /\ unit[a][id].isSuccess = "false"
        /\ today[a] = today[b]
        /\ Attempted(b, id)
\* C13: the processed count a sweep returns equals the number of dispatches
\* made in that sweep, one for each record the query matched.
C13_ProcessedCountsAttempts ==
    \A sw \in Sweeps :
        Answered(sw) =>
            /\ response[sw].processed = Cardinality({id \in Ids : Attempted(sw, id)})
            /\ \A id \in Matched(sw) : Attempted(sw, id)
\* C14: every log entry carries as payload exactly the fields that were
\* passed to the dispatcher for its record; a FAILED entry carries in addition
\* only the diagnostic note.
C14_LogCarriesSentPayload ==
    \A e \in DOMAIN logs :
        e.payload = SentPayload(sentinels[e.sentinelId])
                        \cup (IF e.status = "FAILED" THEN {"error"} ELSE {})
\* C15: a request runs a sweep only if its Authorization header is "Bearer "
\* followed by the configured secret; every other request is answered 401 with
\* no store query, no dispatch, no status update and no log entry.
C15_OnlySecretHolderSweeps ==
    \A sw \in Sweeps :
        pc[sw] # "idle" =>
            \/ /\ CRON_SECRET # UNSET
               /\ authorization[sw] = <<"Bearer", CRON_SECRET>>
            \/ /\ pc[sw] = "done"
               /\ response[sw].status = 401
               /\ today[sw] = 0
               /\ snapshot[sw] = {}
               /\ \A id \in Ids : unit[sw][id].pc = "none" /\ NumLogs(sw, id) = 0
\* C16: no step of a sweep deletes a sentinel record, changes a sentinel field
\* other than status, or updates or deletes an existing log entry; the only
\* writes are status := FIRED on a record the sweep matched and the append of
\* new log entries.
C16_SweepWritesOnly ==
    [][ /\ DOMAIN sentinels' = DOMAIN sentinels
        /\ \A id \in DOMAIN sentinels :
              \/ sentinels'[id] = sentinels[id]
              \/ /\ sentinels'[id] = [sentinels[id] EXCEPT !.status = "FIRED"]
                 /\ \E sw \in Sweeps : id \in snapshot[sw]
        /\ \A e \in DOMAIN logs :
              e \in DOMAIN logs' /\ logs'[e] >= logs[e]
        /\ BagCardinality(logs') \in {BagCardinality(logs), BagCardinality(logs) + 1} ]_vars

\* A FIRED record with log entries from two sweeps: the earlier entry
\* survived the later append and the status update.
C16_Witness ==
    \E id \in Ids, a, b \in Sweeps :
        /\ a # b
        /\ NumLogs(a, id) = 1 /\ NumLogs(b, id) = 1
        /\ sentinels[id].status = "FIRED"
\* The calendar, walked: leap years by the Gregorian rule, month lengths by
\* name, and the number of a date counted from the first year of the inputs.
IsLeap(y) == (y % 4 = 0 /\ y % 100 # 0) \/ y % 400 = 0
MonthLength(y, m) ==
    IF m = 2 THEN (IF IsLeap(y) THEN 29 ELSE 28)
    ELSE IF m \in {4, 6, 9, 11} THEN 30 ELSE 31
RECURSIVE DaysOfYearsBefore(_)
DaysOfYearsBefore(y) ==
    IF \A x \in Years : y <= x THEN 0
    ELSE DaysOfYearsBefore(y - 1) + (IF IsLeap(y - 1) THEN 366 ELSE 365)
RECURSIVE DaysOfMonthsBefore(_, _)
DaysOfMonthsBefore(y, m) ==
    IF m = 1 THEN 0 ELSE DaysOfMonthsBefore(y, m - 1) + MonthLength(y, m - 1)
CalendarDay(s) == DaysOfYearsBefore(s.y) + DaysOfMonthsBefore(s.y, s.m) + s.d
\* target minus reference, in whole calendar days.
CalendarDiff(target, reference) == CalendarDay(target) - CalendarDay(reference)

\* C17: isWithinNoticeWindow(target, reference, windowDays) is true exactly when
\* 0 <= d <= windowDays, d the calendar-day difference target minus reference;
\* both ends are inclusive, and windowDays = 0 matches only the reference date.
C17_WithinWindowIffInRange ==
    (call.fn = "isWithinNoticeWindow" /\ call.returned) =>
        LET d == CalendarDiff(call.triggerDate, call.todayDate) IN
        /\ call.value <=> (0 <= d /\ d <= call.windowDays)
        /\ call.windowDays = 0 => (call.value <=> call.triggerDate = call.todayDate)

\* A call across a year's end with the target on the last day of the window.
C17_Witness ==
    /\ call.fn = "isWithinNoticeWindow" /\ call.returned /\ call.value
    /\ call.triggerDate.y # call.todayDate.y
    /\ call.windowDays > 0
    /\ CalendarDiff(call.triggerDate, call.todayDate) = call.windowDays

\* target is an earlier date than reference, read off the three numbers.
DateBefore(a, b) ==
    \/ a.y < b.y
    \/ a.y = b.y /\ a.m < b.m
    \/ a.y = b.y /\ a.m = b.m /\ a.d < b.d

\* C18: for a target date strictly before the reference date,
\* isWithinNoticeWindow is false whatever windowDays is.
C18_PastIsNeverWithin ==
    (call.fn = "isWithinNoticeWindow" /\ call.returned
        /\ DateBefore(call.triggerDate, call.todayDate)) => ~call.value

\* A call with the target one day before the reference and a window of a year.
C18_Witness ==
    /\ call.fn = "isWithinNoticeWindow" /\ call.returned
    /\ DateBefore(call.triggerDate, call.todayDate)
    /\ CalendarDiff(call.triggerDate, call.todayDate) = -1
    /\ call.windowDays >= 365
    /\ ~call.value
\* The four conditions of C19, read off what the call received.
CallerHasEmail ==
    /\ call.session.kind = "session"
    /\ "email" \in DOMAIN call.session.user
    /\ Len(call.session.user.email) > 0
FormValidates ==
    /\ DOMAIN call.formData = {"clause", "notificationMethod", "notificationTarget"}
    /\ Len(call.formData.clause) > 9
    /\ call.formData.notificationMethod \in {"slack", "teams", "email", "sms", "custom"}
    /\ call.formData.notificationTarget # ""
ExtractionReturned == call.extracted.kind = "result"
MergedRecordValid ==
    /\ ExtractionReturned
    /\ Len(call.extracted.eventName) > 2
    /\ Len(call.extracted.triggerDate) = 10
    /\ \A i \in 1..10 :
          LET ch == SubSeq(call.extracted.triggerDate, i, i) IN
          IF i \in {5, 8} THEN ch = "-" ELSE ch \in Digits
    /\ call.formData.notificationMethod \in {"slack", "email", "sms", "custom"}
MayWrite == CallerHasEmail /\ FormValidates /\ ExtractionReturned /\ MergedRecordValid

\* C19: createSentinel adds a record to the store only when the caller has a
\* session with an email, the form validates, the extraction returned a result
\* and the merged record passes SentinelSchema, and then it adds one record
\* and touches no other; in every other case, and when the add fails, it
\* returns success: false, does not throw, and leaves the store as it was.
C19_CreateWritesOnlyWhenValid ==
    /\ [][ sentinels' # sentinels =>
             /\ call.fn = "createSentinel"
             /\ MayWrite
             /\ Len(sentinels') = Len(sentinels) + 1
             /\ SubSeq(sentinels', 1, Len(sentinels)) = sentinels ]_vars
    /\ []( (call.fn = "createSentinel" /\ call.pc = "returned"
              /\ (~MayWrite \/ ~call.added)) =>
               /\ ~call.result.threw
               /\ call.result.value.success = FALSE
               /\ sentinels = call.before )

\* A call whose form validates ("teams") but whose merged record does not
\* pass SentinelSchema has returned.
C19_Witness ==
    /\ call.fn = "createSentinel" /\ call.pc = "returned"
    /\ CallerHasEmail /\ FormValidates /\ ExtractionReturned /\ ~MergedRecordValid
    /\ call.formData.notificationMethod = "teams"
    /\ call.result.value.success = FALSE
    /\ sentinels = call.before

\* A call whose conditions all held and whose add was rejected has returned.
C19_AddFailedWitness ==
    /\ call.fn = "createSentinel" /\ call.pc = "returned"
    /\ MayWrite /\ ~call.added
    /\ call.result.value.success = FALSE
    /\ sentinels = call.before

\* C20: every record createSentinel has added to the store has status PENDING
\* and the email of the call's session as userId.
C20_PersistedPendingAndOwned ==
    call.fn = "createSentinel" =>
        \A i \in (Len(call.before) + 1)..Len(sentinels) :
            /\ sentinels[i].status = "PENDING"
            /\ CallerHasEmail
            /\ sentinels[i].userId = call.session.user.email

\* Bob's call has added a record after Ann's.
C20_Witness ==
    /\ call.fn = "createSentinel" /\ call.pc = "returned"
    /\ call.result.value.success
    /\ Len(sentinels) = Len(call.before) + 1
    /\ Len(call.before) = 1
    /\ sentinels[1].userId # sentinels[2].userId
    /\ sentinels[2].userId = call.session.user.email
    /\ sentinels[2].status = "PENDING"
\* C22: in one record's unit the steps come in the order dispatch, status
\* update (only after a true result), log append: a unit stands at the update
\* or at the log only with its dispatch result known; the record's status
\* changes only in a unit whose dispatch came back ok and that has not logged
\* yet; and the one entry a unit writes is SUCCESS exactly when its own
\* dispatch came back ok (the update already applied), FAILED otherwise.
C22_UnitStepsOrdered ==
    /\ [](\A sw \in Sweeps, id \in Ids :
            LET u == unit[sw][id] IN
            /\ u.pc \in {"updating", "logging"} => u.net # "none"
            /\ u.pc = "updating" => u.net = "ok"
            /\ NumLogs(sw, id) > 0 =>
                  /\ NumLogs(sw, id) = 1
                  /\ u.pc = "fulfilled"
            /\ Entries(sw, id, "SUCCESS") > 0 => u.net = "ok"
            /\ Entries(sw, id, "FAILED") > 0 => u.net \in {"nonok", "neterr", "timeout"})
    /\ [][ \A id \in Ids :
             sentinels'[id].status # sentinels[id].status =>
                \E sw \in Sweeps :
                    /\ unit[sw][id].pc = "updating"
                    /\ unit[sw][id].net = "ok"
                    /\ NumLogs(sw, id) = 0
                    /\ unit'[sw][id].pc = "logging" ]_vars
    /\ [][ \A sw \in Sweeps, id \in Ids :
             NumLogs(sw, id)' > NumLogs(sw, id) =>
                /\ unit[sw][id].pc = "logging"
                /\ unit[sw][id].net = "ok" => sentinels[id].status = "FIRED" ]_vars

\* One sweep has finished two units, one whose dispatch came back ok and one
\* whose dispatch failed, each with its log entry.
C22_Witness ==
    \E sw \in Sweeps, a, b \in Ids :
        /\ unit[sw][a].pc = "fulfilled" /\ unit[sw][a].net = "ok"
        /\ Entries(sw, a, "SUCCESS") = 1 /\ sentinels[a].status = "FIRED"
        /\ unit[sw][b].pc = "fulfilled" /\ unit[sw][b].net \in {"nonok", "neterr", "timeout"}
        /\ Entries(sw, b, "FAILED") = 1
\* C23: what a sweep leaves behind is a function of the records it matched and
\* of what each record's dispatch and store writes met, whatever the order in
\* which the units took their steps: once a sweep that ran alone is answered,
\* every unit has settled, processed is the number of matched records, a
\* record is FIRED exactly if its dispatch came back ok and its update was
\* applied, and it has one SUCCESS entry (ok, no write failed), one FAILED
\* entry (dispatch failed, log written) or none.
C23_OrderNotObservable ==
    \A sw \in Sweeps :
        (Answered(sw) /\ Solo(sw)) =>
            /\ response[sw].processed = Cardinality(Matched(sw))
            /\ \A id \in Matched(sw) :
                  LET u == unit[sw][id]
                      failed == u.net \in {"nonok", "neterr", "timeout"}
                  IN  /\ Settled(u)
                      /\ (sentinels[id].status = "FIRED")
                            <=> (u.net = "ok" /\ u.threwAt # "update")
                      /\ Entries(sw, id, "SUCCESS")
                            = (IF u.net = "ok" /\ u.threwAt = "none" THEN 1 ELSE 0)
                      /\ Entries(sw, id, "FAILED")
                            = (IF failed /\ u.threwAt = "none" THEN 1 ELSE 0)

\* A sweep that ran alone over two records is answered; one unit was
\* rejected at the log append after its update, the other logged a failure.
C23_Witness ==
    \E sw \in Sweeps, a, b \in Ids :
        /\ Answered(sw) /\ Solo(sw)
        /\ Matched(sw) = {a, b} /\ a # b
        /\ unit[sw][a].net = "ok" /\ unit[sw][a].threwAt = "log"
        /\ sentinels[a].status = "FIRED"
        /\ unit[sw][b].net = "timeout" /\ Entries(sw, b, "FAILED") = 1
        /\ response[sw].processed = 2
\* C24: in one sweep every matched record has exactly one unit of work (and no
\* other record has one); a unit starts its dispatch only when the query
\* resolves, and once its dispatch has come back, with whatever result, the
\* unit never dispatches again.
C24_OneAttemptPerRecord ==
    /\ [](\A sw \in Sweeps : Matched(sw) = snapshot[sw])
    /\ [][ \A sw \in Sweeps, id \in Ids :
             /\ unit[sw][id].net # "none" =>
                   /\ unit'[sw][id].net = unit[sw][id].net
                   /\ unit'[sw][id].pc # "fetching"
             /\ (unit'[sw][id].pc = "fetching" /\ unit[sw][id].pc # "fetching") =>
                   /\ QueryStep(sw)
                   /\ unit[sw][id].pc = "none" ]_vars

\* An answered sweep whose dispatch for a record failed: one attempt, one
\* FAILED entry, the record still PENDING.
C24_Witness ==
    \E sw \in Sweeps, id \in Ids :
        /\ Answered(sw)
        /\ id \in snapshot[sw]
        /\ unit[sw][id].net \in {"nonok", "neterr", "timeout"}
        /\ unit[sw][id].pc = "fulfilled"
        /\ NumLogs(sw, id) = 1
        /\ sentinels[id].status = "PENDING"
\* C25: across all sweeps, overlapping ones included, a record's dispatch
\* comes back ok at most once, and at most one SUCCESS entry exists for it.
C25_AtMostOneSuccess ==
    \A id \in Ids :
        /\ Cardinality({sw \in Sweeps : unit[sw][id].net = "ok"}) <= 1
        /\ Cardinality({sw \in Sweeps : Entries(sw, id, "SUCCESS") > 0}) <= 1
\* C26: a SUCCESS entry exists for a record only if the record is FIRED, and
\* it is appended when the record is FIRED already; a FAILED entry is written
\* only by a unit whose dispatch returned false, and a unit changes the
\* record's status only if its dispatch returned true (so the writer of a
\* FAILED entry never touched the status).
C26_LogsAgreeWithStatus ==
    /\ [](\A sw \in Sweeps, id \in Ids :
            /\ Entries(sw, id, "SUCCESS") > 0 => sentinels[id].status = "FIRED"
            /\ Entries(sw, id, "FAILED") > 0 => unit[sw][id].isSuccess = "false"
            /\ unit[sw][id].pc = "updating" => unit[sw][id].isSuccess = "true")
    /\ [][ \A sw \in Sweeps, id \in Ids :
             /\ Entries(sw, id, "SUCCESS")' > Entries(sw, id, "SUCCESS") =>
                   sentinels[id].status = "FIRED"
             /\ (unit'[sw][id] # unit[sw][id] /\ sentinels'[id] # sentinels[id]) =>
                   /\ unit[sw][id].isSuccess = "true"
                   /\ unit'[sw][id].isSuccess = "true" ]_vars

\* One record with a SUCCESS entry of one sweep, which set it FIRED, and a
\* FAILED entry of an overlapping sweep, which did not touch it.
C26_Witness ==
    \E a, b \in Sweeps, id \in Ids :
        /\ a # b
        /\ Entries(a, id, "SUCCESS") = 1
        /\ Entries(b, id, "FAILED") = 1
        /\ sentinels[id].status = "FIRED"
\* C27: with MAKE_WEBHOOK_URL not set, every matched record whose method is
\* not custom is skipped (its unit returns at once: no dispatch, no log entry,
\* status PENDING), it is still counted in processed, and the custom records
\* of the sweep start their dispatch as usual.
C27_SkippedWithoutRelay ==
    /\ [](~MAKE_WEBHOOK_URL =>
            \A sw \in Sweeps :
                /\ \A id \in snapshot[sw] :
                      sentinels[id].notificationMethod # "custom" =>
                          /\ unit[sw][id].pc = "fulfilled"
                          /\ unit[sw][id].net = "none"
                          /\ NumLogs(sw, id) = 0
                          /\ sentinels[id].status = "PENDING"
                /\ Answered(sw) => response[sw].processed = Cardinality(snapshot[sw]))
    /\ [][ ~MAKE_WEBHOOK_URL =>
             \A sw \in Sweeps :
                QueryStep(sw) =>
                    \A id \in snapshot'[sw] :
                        sentinels[id].notificationMethod = "custom" =>
                            unit'[sw][id].pc = "fetching" ]_vars

\* Without the relay URL, an answered sweep matched a custom record, which it
\* delivered and fired, and a relay record, which it skipped and counted.
C27_Witness ==
    \E sw \in Sweeps, a, b \in Ids :
        /\ ~MAKE_WEBHOOK_URL
        /\ Answered(sw)
        /\ snapshot[sw] = {a, b}
        /\ sentinels[a].notificationMethod = "custom"
        /\ unit[sw][a].net = "ok" /\ sentinels[a].status = "FIRED"
        /\ Entries(sw, a, "SUCCESS") = 1
        /\ sentinels[b].notificationMethod # "custom"
        /\ unit[sw][b].net = "none" /\ sentinels[b].status = "PENDING"
        /\ NumLogs(sw, b) = 0
        /\ response[sw].processed = 2
\* C30: with CRON_SECRET not configured, every request, whatever its
\* Authorization header, is answered 401 and runs no sweep.
C30_NoSecretNoSweep ==
    CRON_SECRET = UNSET =>
        \A sw \in Sweeps :
            pc[sw] # "idle" =>
                /\ pc[sw] = "done"
                /\ response[sw].status = 401
                /\ snapshot[sw] = {}
\* The extraction returned an event name of three characters or more and a
\* date of the form YYYY-MM-DD.
WellFormedExtraction ==
    /\ ExtractionReturned
    /\ Len(call.extracted.eventName) > 2
    /\ Len(call.extracted.triggerDate) = 10
    /\ \A i \in 1..10 :
          LET ch == SubSeq(call.extracted.triggerDate, i, i) IN
          IF i \in {5, 8} THEN ch = "-" ELSE ch \in Digits

\* C29: every notificationMethod the form validation accepts passes
\* SentinelSchema too: when the extraction comes back well formed for an
\* authenticated caller with a valid form, createSentinel goes on to add the
\* record (status PENDING) to the store.
C29_ValidFormIsPersisted ==
    [][ ( /\ call.fn = "createSentinel"
          /\ call.pc = "extracting"
          /\ call'.pc # "extracting"
          /\ CallerHasEmail /\ FormValidates
          /\ WellFormedExtraction' )
        => call'.pc = "adding" ]_vars
\* The document deleteSentinel read exists and carries the caller's email.
ReadOwnDocument ==
    /\ call.doc.kind = "doc"
    /\ call.doc.exists
    /\ call.doc.userId = call.session.user.email

\* C21: a step of deleteSentinel removes a record only if the caller has a
\* session with an email, the record exists and its userId is that email, and
\* it removes that record and no other; a call that returns without all three
\* (no session email, or the document it read missing or another user's)
\* returns success: false.
C21_DeleteOnlyOwn ==
    /\ [][ (call'.fn = "deleteSentinel" /\ call' # call
               /\ DOMAIN sentinels' # DOMAIN sentinels) =>
             /\ CallerHasEmail
             /\ call.sentinelId \in DOMAIN sentinels
             /\ sentinels[call.sentinelId].userId = call.session.user.email
             /\ DOMAIN sentinels' = DOMAIN sentinels \ {call.sentinelId}
             /\ \A j \in DOMAIN sentinels' : sentinels'[j] = sentinels[j] ]_vars
    /\ []( (call.fn = "deleteSentinel" /\ call.pc = "returned"
              /\ ~(CallerHasEmail /\ ReadOwnDocument)) =>
               /\ ~call.result.threw
               /\ call.result.value.success = FALSE )

\* A signed-in user asked to delete another user's record: the call has
\* returned success: false and the record is still there.
C21_Witness ==
    /\ call.fn = "deleteSentinel" /\ call.pc = "returned"
    /\ CallerHasEmail
    /\ call.doc.kind = "doc" /\ call.doc.exists
    /\ call.doc.userId # call.session.user.email
    /\ call.sentinelId \in DOMAIN sentinels
    /\ call.result.value.success = FALSE

\* The owner's call has removed the record and returned success: true.
C21_DeletedWitness ==
    /\ call.fn = "deleteSentinel" /\ call.pc = "returned"
    /\ CallerHasEmail /\ ReadOwnDocument
    /\ call.sentinelId \notin DOMAIN sentinels
    /\ call.result.value.success
\* Request sw matched the record and the record has been deleted since.
DeletedUnderway(sw, id) == id \in snapshot[sw] /\ id \notin DOMAIN sentinels

\* C28: a record deleted by its owner after a sweep's query is never
\* re-created (no step adds a document; the update of the deleted record can
\* only be rejected); the deletion changes no unit, no other record, no log
\* and no answer; the other records' units can still take their next step; the
\* sweep can still answer once all units have settled, and it answers with the
\* number of records it matched.
C28_DeletionLeavesSweepIntact ==
    /\ [][ /\ DOMAIN sentinels' \subseteq DOMAIN sentinels
           /\ DOMAIN sentinels' # DOMAIN sentinels =>
                 /\ UNCHANGED <<unit, snapshot, pc, response, logs>>
                 /\ \A j \in DOMAIN sentinels' : sentinels'[j] = sentinels[j] ]_vars
    /\ [](\A sw \in Sweeps, id \in Ids :
            DeletedUnderway(sw, id) =>
                /\ (pc[sw] = "running" /\ unit[sw][id].pc = "updating") =>
                      /\ ~ENABLED UpdateStatus(sw, id)
                      /\ ENABLED UpdateFails(sw, id)
                /\ \A j \in snapshot[sw] \cap DOMAIN sentinels :
                      pc[sw] = "running" =>
                          /\ unit[sw][j].pc = "fetching" =>
                                /\ ENABLED TimerFires(sw, j)
                                /\ \A o \in ResponseOutcomes : ENABLED FetchSettles(sw, j, o)
                          /\ unit[sw][j].pc = "updating" => ENABLED UpdateStatus(sw, j)
                          /\ unit[sw][j].pc = "logging" => ENABLED LogAdd(sw, j)
                /\ (pc[sw] = "running" /\ \A j \in snapshot[sw] : Settled(unit[sw][j]))
                      => ENABLED Respond(sw)
                /\ Answered(sw) => response[sw].processed = Cardinality(snapshot[sw]))

\* The owner's deleteSentinel has removed a record that a running sweep had
\* matched and delivered and whose status update is still to come, while the
\* sweep's unit for another record has fired and logged it.
C28_Witness ==
    \E sw \in Sweeps, a, b \in Ids :
        /\ a # b
        /\ snapshot[sw] = {a, b}
        /\ pc[sw] = "running"
        /\ call.fn = "deleteSentinel" /\ call.pc = "returned"
        /\ call.sentinelId = a /\ call.result.value.success
        /\ a \notin DOMAIN sentinels
        /\ unit[sw][a].pc = "updating"
        /\ unit[sw][b].pc = "fulfilled" /\ unit[sw][b].net = "ok"
        /\ sentinels[b].status = "FIRED"

\* The sweep of the state above has been answered: the deleted record's unit
\* was rejected at the update and the record is still gone.
C28_AnsweredWitness ==
    \E sw \in Sweeps, a, b \in Ids :
        /\ a # b
        /\ snapshot[sw] = {a, b}
        /\ Answered(sw) /\ response[sw].processed = 2
        /\ a \notin DOMAIN sentinels
        /\ unit[sw][a].threwAt = "update"
        /\ Entries(sw, b, "SUCCESS") = 1
====
